---------------------------- MODULE Spec2Model ----------------------------
(***************************************************************************)
(* A model of py-simple-s3-fs (src/src/objectstore.py): the local, cloud   *)
(* and routing object stores and the path helpers they rest on.            *)
(*                                                                         *)
(* Strings are sequences of one-character strings, so that startswith,     *)
(* endswith, len, split and concatenation are computed as Python computes  *)
(* them.  The local file system is a set of directories and a map from     *)
(* file nodes to their bytes; a node is the sequence of its path           *)
(* components, and the process's working directory is the root.            *)
(***************************************************************************)
EXTENDS Naturals, Sequences, FiniteSets

VARIABLES files, dirs, objs, map_prefix_fs, regs, pc, call, handle, onlyPuts

vars == <<files, dirs, objs, map_prefix_fs, regs, pc, call, handle, onlyPuts>>

-----------------------------------------------------------------------------
(* Strings *)

SEP == "/"

\* str.startswith
StartsWith(s, p) == Len(p) <= Len(s) /\ SubSeq(s, 1, Len(p)) = p

\* str.endswith
EndsWith(s, p) == Len(p) <= Len(s) /\ SubSeq(s, Len(s) - Len(p) + 1, Len(s)) = p

\* the code point of a character, which Python's string order compares
Code(c) ==
  CASE c = "/" -> 47
    [] c = "3" -> 51
    [] c = ":" -> 58
    [] c = "_" -> 95
    [] c = "a" -> 97
    [] c = "b" -> 98
    [] c = "k" -> 107
    [] c = "s" -> 115
    [] c = "t" -> 116
    [] OTHER -> 0

\* Python's s < t on strings
RECURSIVE StrLess(_, _)
StrLess(s, t) ==
  IF s = <<>> THEN t # <<>>
  ELSE IF t = <<>> THEN FALSE
  ELSE IF Head(s) = Head(t) THEN StrLess(Tail(s), Tail(t))
  ELSE Code(Head(s)) < Code(Head(t))

\* sorted(...) of a collection of distinct strings
RECURSIVE Sorted(_)
Sorted(S) ==
  IF S = {} THEN <<>>
  ELSE LET m == CHOOSE x \in S : \A y \in S \ {x} : StrLess(x, y)
       IN <<m>> \o Sorted(S \ {m})

\* the non-empty components of a path, as the kernel's path walk sees them
RECURSIVE Parts(_)
Parts(s) ==
  IF s = <<>> THEN <<>>
  ELSE IF Head(s) = SEP THEN Parts(Tail(s))
  ELSE LET rest == Parts(Tail(s))
       IN IF Len(s) > 1 /\ s[2] # SEP
          THEN <<(<<Head(s)>> \o Head(rest))>> \o Tail(rest)
          ELSE <<(<<Head(s)>>)>> \o rest

\* s.rstrip("/")
RECURSIVE RStrip(_)
RStrip(s) ==
  IF s # <<>> /\ s[Len(s)] = SEP THEN RStrip(SubSeq(s, 1, Len(s) - 1)) ELSE s

\* the index of the last separator of s, 0 when it has none (str.rfind + 1)
RECURSIVE RFind(_)
RFind(s) ==
  IF s = <<>> THEN 0 ELSE IF s[Len(s)] = SEP THEN Len(s) ELSE RFind(SubSeq(s, 1, Len(s) - 1))

\* posixpath.dirname: the head up to the last separator, its trailing
\* separators stripped unless it consists of separators only
Dirname(p) ==
  LET head == SubSeq(p, 1, RFind(p))
  IN IF RStrip(head) = <<>> THEN head ELSE RStrip(head)

\* posixpath.join; an absolute segment discards what precedes it, an empty
\* last segment leaves a trailing separator
RECURSIVE PosixJoin(_, _)
PosixJoin(path, rest) ==
  IF rest = <<>> THEN path
  ELSE LET b == Head(rest)
           next == IF StartsWith(b, <<SEP>>) THEN b
                   ELSE IF path = <<>> \/ EndsWith(path, <<SEP>>) THEN path \o b
                   ELSE path \o <<SEP>> \o b
       IN PosixJoin(next, Tail(rest))

-----------------------------------------------------------------------------
(* The local file system, as the os, shutil and builtin calls of the code  *)
(* see it.  Every call returns the error it raises ("" when none) and the  *)
(* files and directories it leaves behind.                                 *)

Root == <<>>

IsFile(fs, n) == n \in DOMAIN fs
IsDir(ds, n) == n \in ds

Prefixes(comps) == {SubSeq(comps, 1, k) : k \in 0..Len(comps)}
ProperPrefixes(comps) == {SubSeq(comps, 1, k) : k \in 0..(Len(comps) - 1)}

\* what the kernel's walk of a path finds: "dir", "file", "absent" (the
\* parent is a directory, the name is free), "enoent" or "enotdir"
Lookup(fs, ds, path) ==
  LET comps == Parts(path)
      anc == ProperPrefixes(comps)
  IN IF path = <<>> THEN "enoent"
     ELSE IF \E a \in anc : ~IsDir(ds, a)
     THEN LET bad == CHOOSE a \in anc :
                        ~IsDir(ds, a) /\ \A b \in anc : Len(b) < Len(a) => IsDir(ds, b)
          IN IF IsFile(fs, bad) THEN "enotdir" ELSE "enoent"
     ELSE IF IsDir(ds, comps) THEN "dir"
     ELSE IF IsFile(fs, comps)
     THEN (IF EndsWith(path, <<SEP>>) THEN "enotdir" ELSE "file")
     ELSE "absent"

\* os.path.exists
OsPathExists(fs, ds, path) == Lookup(fs, ds, path) \in {"dir", "file"}

\* os.makedirs(name, exist_ok=True): creates every missing directory of the
\* path, or raises and creates nothing when a component is a file
OsMakedirs(fs, ds, name) ==
  LET comps == Parts(name)
  IN IF name = <<>> THEN [err |-> "FileNotFoundError", dirs |-> ds]
     ELSE IF \E a \in ProperPrefixes(comps) : IsFile(fs, a)
     THEN [err |-> "NotADirectoryError", dirs |-> ds]
     ELSE IF IsFile(fs, comps) THEN [err |-> "FileExistsError", dirs |-> ds]
     ELSE [err |-> "", dirs |-> ds \cup Prefixes(comps)]

IsReadMode(mode) == mode \in {"r", "rb"}

\* the builtin open(file, mode): a write mode creates or truncates the file
BuiltinOpen(fs, ds, file, mode) ==
  LET st == Lookup(fs, ds, file)
      node == Parts(file)
  IN IF st = "enoent" THEN [err |-> "FileNotFoundError", files |-> fs]
     ELSE IF st = "enotdir" THEN [err |-> "NotADirectoryError", files |-> fs]
     ELSE IF st = "dir" THEN [err |-> "IsADirectoryError", files |-> fs]
     ELSE IF IsReadMode(mode)
     THEN (IF st = "file" THEN [err |-> "", files |-> fs]
           ELSE [err |-> "FileNotFoundError", files |-> fs])
     ELSE IF EndsWith(file, <<SEP>>) THEN [err |-> "IsADirectoryError", files |-> fs]
     ELSE [err |-> "",
           files |-> [n \in DOMAIN fs \cup {node} |-> IF n = node THEN <<>> ELSE fs[n]]]

\* os.listdir: the names in a directory
OsListdir(fs, ds, path) ==
  LET st == Lookup(fs, ds, path)
      node == Parts(path)
  IN IF st \in {"enoent", "absent"} THEN [err |-> "FileNotFoundError", names |-> {}]
     ELSE IF st \in {"enotdir", "file"} THEN [err |-> "NotADirectoryError", names |-> {}]
     ELSE [err |-> "",
           names |-> {n[Len(n)] : n \in {m \in DOMAIN fs \cup ds :
                         Len(m) = Len(node) + 1 /\ SubSeq(m, 1, Len(node)) = node}}]

Below(node, n) == Len(n) >= Len(node) /\ SubSeq(n, 1, Len(node)) = node

\* os.remove as it would be if it emptied the directory of the file
OsRemove_wholeDirectory(fs, ds, path) ==
  LET st == Lookup(fs, ds, path)
      node == Parts(path)
      parent == SubSeq(node, 1, Len(node) - 1)
  IN IF st \in {"enoent", "absent"} THEN [err |-> "FileNotFoundError", files |-> fs]
     ELSE IF st = "enotdir" THEN [err |-> "NotADirectoryError", files |-> fs]
     ELSE IF st = "dir" THEN [err |-> "IsADirectoryError", files |-> fs]
     ELSE [err |-> "",
           files |-> [n \in {m \in DOMAIN fs : SubSeq(m, 1, Len(m) - 1) # parent} |-> fs[n]]]

\* os.remove
OsRemove(fs, ds, path) ==
  LET st == Lookup(fs, ds, path)
      node == Parts(path)
  IN IF st \in {"enoent", "absent"} THEN [err |-> "FileNotFoundError", files |-> fs]
     ELSE IF st = "enotdir" THEN [err |-> "NotADirectoryError", files |-> fs]
     ELSE IF st = "dir" THEN [err |-> "IsADirectoryError", files |-> fs]
     ELSE [err |-> "", files |-> [n \in DOMAIN fs \ {node} |-> fs[n]]]

\* shutil.rmtree: removes the directory and everything below it
ShutilRmtree(fs, ds, path) ==
  LET st == Lookup(fs, ds, path)
      node == Parts(path)
  IN IF st \in {"enoent", "absent"}
     THEN [err |-> "FileNotFoundError", files |-> fs, dirs |-> ds]
     ELSE IF st \in {"enotdir", "file"}
     THEN [err |-> "NotADirectoryError", files |-> fs, dirs |-> ds]
     ELSE [err |-> IF node = Root THEN "OSError" ELSE "",
           files |-> [n \in {m \in DOMAIN fs : ~Below(node, m)} |-> fs[n]],
           dirs |-> {d \in ds : ~Below(node, d)} \cup {Root}]

\* os.walk(path), reduced to what _ls_query keeps of it: os.path.join(sub_path,
\* name) for every file below path; nothing when path is no directory
RECURSIVE WalkFiles(_, _, _, _)
WalkFiles(fs, ds, sub_path, node) ==
  LET kids == {m \in DOMAIN fs \cup ds : Len(m) = Len(node) + 1 /\ Below(node, m)}
      name(m) == m[Len(m)]
      here == {PosixJoin(sub_path, <<name(m)>>) : m \in {k \in kids : IsFile(fs, k)}}
      sub(m) == WalkFiles(fs, ds, PosixJoin(sub_path, <<name(m)>>), m)
  IN here \cup UNION {sub(m) : m \in {k \in kids : IsDir(ds, k)}}

OsWalkFiles(fs, ds, path) ==
  IF Lookup(fs, ds, path) = "dir" THEN WalkFiles(fs, ds, path, Parts(path)) ELSE {}

-----------------------------------------------------------------------------
(* Payloads.  A binary handle writes bytes; a text handle writes a string, *)
(* which reaches the file in the default encoding (UTF-8).                 *)

NumData == 2

\* the byte payloads handed to put_object and to binary handles
BytesData == {<<b>> : b \in 1..NumData}

\* the strings handed to text handles, as sequences of code points
TextData == {<<233>>}

\* str.encode() for code points below 2048
RECURSIVE Encode(_)
Encode(s) ==
  IF s = <<>> THEN <<>>
  ELSE (IF Head(s) < 128 THEN <<Head(s)>>
        ELSE <<192 + (Head(s) \div 64), 128 + (Head(s) % 64)>>) \o Encode(Tail(s))

-----------------------------------------------------------------------------
(* S3Query and the absent query *)

NoQuery == [given |-> FALSE, prefix |-> <<>>, recursive |-> FALSE]
S3Query(prefix, recursive) == [given |-> TRUE, prefix |-> prefix, recursive |-> recursive]

-----------------------------------------------------------------------------
(* LocalObjectStore.  Every method returns the error it raises ("" when    *)
(* none), its value, and the files and directories it leaves.              *)

Res(err, val, fs, ds) == [err |-> err, val |-> val, files |-> fs, dirs |-> ds]

LocalObjectStore_exists(fs, ds, path) == Res("", OsPathExists(fs, ds, path), fs, ds)

LocalObjectStore_path_join(segs) == PosixJoin(Head(segs), Tail(segs))

\* open: directories are made for every mode other than 'r' unless the
\* file has no directory part; then the builtin open decides
LocalObjectStore_open(fs, ds, file, mode) ==
  LET dn == Dirname(file)
      mk == IF mode # "r" /\ dn \notin {<<SEP>>, <<>>}
            THEN OsMakedirs(fs, ds, dn)
            ELSE [err |-> "", dirs |-> ds]
      op == BuiltinOpen(fs, mk.dirs, file, mode)
  IN IF mk.err # "" THEN Res(mk.err, <<>>, fs, ds)
     ELSE Res(op.err, Parts(file), op.files, mk.dirs)

LocalObjectStore_get_object(fs, ds, path) ==
  LET o == LocalObjectStore_open(fs, ds, path, "rb")
  IN IF o.err # "" THEN o ELSE Res("", fs[o.val], o.files, o.dirs)

\* put_object: makedirs on the directory part first, whatever it is
LocalObjectStore_put_object(fs, ds, path, data) ==
  LET mk == OsMakedirs(fs, ds, Dirname(path))
      o == LocalObjectStore_open(fs, mk.dirs, path, "wb")
  IN IF mk.err # "" THEN Res(mk.err, <<>>, fs, ds)
     ELSE IF o.err # "" THEN o
     ELSE Res("", <<>>, [o.files EXCEPT ![o.val] = data], o.dirs)

\* _ls_query(path, prefix, recursive=False)
LocalObjectStore__ls_query(fs, ds, path, prefix, recursive) ==
  LET ld == OsListdir(fs, ds, path)
      all_files == IF recursive THEN OsWalkFiles(fs, ds, path)
                   ELSE {LocalObjectStore_path_join(<<path, f>>) : f \in ld.names}
  IN IF ~recursive /\ ld.err # "" THEN Res(ld.err, <<>>, fs, ds)
     ELSE Res("", Sorted({f \in all_files : StartsWith(f, prefix)}), fs, ds)

\* the binding of a call self._ls_query(*args) to (path, prefix,
\* recursive=False): a call without a prefix raises TypeError
Call_ls_query(fs, ds, args) ==
  IF Len(args) < 2 \/ Len(args) > 3 THEN Res("TypeError", <<>>, fs, ds)
  ELSE LocalObjectStore__ls_query(fs, ds, args[1], args[2],
                                  IF Len(args) = 3 THEN args[3] ELSE FALSE)

RECURSIVE Reversed(_)
Reversed(s) == IF s = <<>> THEN <<>> ELSE Reversed(Tail(s)) \o <<Head(s)>>

\* ls as it would be if it sorted in descending order
LocalObjectStore_ls_descending(fs, ds, path, query) ==
  LET ld == OsListdir(fs, ds, path)
  IN IF ~query.given
     THEN (IF ld.err # "" THEN Res(ld.err, <<>>, fs, ds)
           ELSE Res("",
                    Reversed(Sorted({LocalObjectStore_path_join(<<path, f>>) : f \in ld.names})),
                    fs, ds))
     ELSE Call_ls_query(fs, ds, <<query>>)

\* ls: without a query the sorted children; with one, self._ls_query(query)
LocalObjectStore_ls(fs, ds, path, query) ==
  LET ld == OsListdir(fs, ds, path)
  IN IF ~query.given
     THEN (IF ld.err # "" THEN Res(ld.err, <<>>, fs, ds)
           ELSE Res("", Sorted({LocalObjectStore_path_join(<<path, f>>) : f \in ld.names}),
                    fs, ds))
     ELSE Call_ls_query(fs, ds, <<query>>)

MinSafeLen == 5

\* rm as it would be if a recursive removal took the directory of the path
LocalObjectStore_rm_dirname(fs, ds, path, recursive) ==
  IF recursive
  THEN (IF Len(path) < MinSafeLen THEN Res("AssertionError", <<>>, fs, ds)
        ELSE LET r == ShutilRmtree(fs, ds, Dirname(path))
             IN Res(r.err, <<>>, r.files, r.dirs))
  ELSE LET r == OsRemove(fs, ds, path)
       IN Res(r.err, <<>>, r.files, ds)

\* rm: the recursive branch refuses paths shorter than five characters
LocalObjectStore_rm(fs, ds, path, recursive) ==
  IF recursive
  THEN (IF Len(path) < MinSafeLen THEN Res("AssertionError", <<>>, fs, ds)
        ELSE LET r == ShutilRmtree(fs, ds, path)
             IN Res(r.err, <<>>, r.files, r.dirs))
  ELSE LET r == OsRemove(fs, ds, path)
       IN Res(r.err, <<>>, r.files, ds)

-----------------------------------------------------------------------------
(* S3ObjectStore.  The medium is a map from "bucket/key" to bytes, used   *)
(* through s3fs, which accepts a path with or without the "s3://" scheme.  *)

Scheme == <<"s", "3", ":", "/", "/">>

\* s3fs: the scheme and the trailing separators are dropped from a path
S3Key(path) ==
  RStrip(IF StartsWith(path, Scheme) THEN SubSeq(path, Len(Scheme) + 1, Len(path)) ELSE path)

\* the object keys at or below a key
S3Under(os, key) == {k \in DOMAIN os : StartsWith(k, key \o <<SEP>>)}

SRes(err, val, os) == [err |-> err, val |-> val, objs |-> os]

S3ObjectStore_exists(os, path) ==
  LET key == S3Key(path)
  IN SRes("", key \in DOMAIN os \/ S3Under(os, key) # {}, os)

\* open(file, 'rb') and read
S3ObjectStore_get_object(os, path) ==
  LET key == S3Key(path)
  IN IF key \in DOMAIN os THEN SRes("", os[key], os)
     ELSE SRes("FileNotFoundError", <<>>, os)

\* whether a key names an object inside a bucket
HasObjectPart(key) == \E i \in 1..Len(key) : key[i] = SEP

\* open(file, 'wb'), write and close
S3ObjectStore_put_object(os, path, data) ==
  LET key == S3Key(path)
  IN IF ~HasObjectPart(key) THEN SRes("ValueError", <<>>, os)
     ELSE SRes("", <<>>, [k \in DOMAIN os \cup {key} |-> IF k = key THEN data ELSE os[k]])

\* the first component of a key below a prefix, with the prefix
RECURSIVE UpToSep(_)
UpToSep(s) == IF s = <<>> \/ Head(s) = SEP THEN <<>> ELSE <<Head(s)>> \o UpToSep(Tail(s))

S3Child(key, k) == key \o <<SEP>> \o UpToSep(SubSeq(k, Len(key) + 2, Len(k)))

\* ls: without a query "s3://" before each of s3fs's entries, sorted; with
\* one, self._ls_query() without its arguments, a TypeError
S3ObjectStore_ls(os, path, query) ==
  LET key == S3Key(path)
      kids == {S3Child(key, k) : k \in S3Under(os, key)}
  IN IF query.given THEN SRes("TypeError", <<>>, os)
     ELSE IF kids # {} THEN SRes("", Sorted({Scheme \o f : f \in kids}), os)
     ELSE IF key \in DOMAIN os THEN SRes("", <<(Scheme \o key)>>, os)
     ELSE SRes("FileNotFoundError", <<>>, os)

\* rm: handed to s3fs as it is, whatever the path
S3ObjectStore_rm(os, path, recursive) ==
  LET key == S3Key(path)
      gone == ({key} \cap DOMAIN os) \cup (IF recursive THEN S3Under(os, key) ELSE {})
  IN SRes(IF gone = {} THEN "FileNotFoundError" ELSE "", <<>>,
          [k \in DOMAIN os \ gone |-> os[k]])

\* open: a handle on the key; a written object appears when the handle closes
S3ObjectStore_open(os, file, mode) ==
  LET key == S3Key(file)
  IN IF IsReadMode(mode) /\ key \notin DOMAIN os THEN SRes("FileNotFoundError", <<>>, os)
     ELSE IF ~IsReadMode(mode) /\ ~HasObjectPart(key) THEN SRes("ValueError", <<>>, os)
     ELSE SRes("", key, os)

\* path_join: drop the empty segments, end every segment but the last with
\* a separator, concatenate
RECURSIVE S3JoinAll(_)
S3JoinAll(all_paths) ==
  IF all_paths = <<>> THEN <<>>
  ELSE IF Len(all_paths) = 1 THEN Head(all_paths)
  ELSE (IF EndsWith(Head(all_paths), <<SEP>>) THEN Head(all_paths)
        ELSE Head(all_paths) \o <<SEP>>) \o S3JoinAll(Tail(all_paths))

RECURSIVE NonEmpty(_)
NonEmpty(segs) ==
  IF segs = <<>> THEN <<>>
  ELSE (IF Head(segs) = <<>> THEN <<>> ELSE <<Head(segs)>>) \o NonEmpty(Tail(segs))

S3ObjectStore_path_join(segs) == S3JoinAll(NonEmpty(segs))

-----------------------------------------------------------------------------
(* MultiObjectStore.  map_prefix_fs is a dict: it keeps its keys in the    *)
(* order of their first insertion, and assigning to a key that is present  *)
(* replaces the value where it stands.                                     *)

None == [none |-> TRUE, str |-> <<>>]
Str(s) == [none |-> FALSE, str |-> s]

\* map_prefix_fs[prefix] = fs
DictSet(d, prefix, fs) ==
  IF \E i \in 1..Len(d) : d[i].prefix = prefix
  THEN [i \in 1..Len(d) |-> IF d[i].prefix = prefix THEN [d[i] EXCEPT !.fs = fs] ELSE d[i]]
  ELSE Append(d, [prefix |-> prefix, fs |-> fs])

MultiObjectStore_add_fs(d, fs, prefix) == DictSet(d, prefix, fs)

\* the backends of the entries a path matches, in the dict's order
RECURSIVE FsList(_, _)
FsList(d, path) ==
  IF d = <<>> THEN <<>>
  ELSE (IF ~Head(d).prefix.none /\ StartsWith(path, Head(d).prefix.str)
        THEN <<Head(d).fs>> ELSE <<>>) \o FsList(Tail(d), path)

\* _fs as it would be if the last match won
MultiObjectStore__fs_lastMatch(d, path) ==
  LET fs_list == FsList(d, path)
  IN IF Len(fs_list) > 0 THEN [err |-> "", fs |-> fs_list[Len(fs_list)]]
     ELSE IF \E i \in 1..Len(d) : d[i].prefix = None
     THEN [err |-> "", fs |-> (CHOOSE e \in {d[i] : i \in 1..Len(d)} : e.prefix = None).fs]
     ELSE [err |-> "KeyError", fs |-> "none"]

\* _fs: the first match, else map_prefix_fs[None], a KeyError when absent
MultiObjectStore__fs(d, path) ==
  LET fs_list == FsList(d, path)
  IN IF Len(fs_list) > 0 THEN [err |-> "", fs |-> fs_list[1]]
     ELSE IF \E i \in 1..Len(d) : d[i].prefix = None
     THEN [err |-> "", fs |-> (CHOOSE e \in {d[i] : i \in 1..Len(d)} : e.prefix = None).fs]
     ELSE [err |-> "KeyError", fs |-> "none"]

S3 == "S3ObjectStore"
Local == "LocalObjectStore"
InMemory == "InMemoryObjectStore"

\* create_multi_object_store()
create_multi_object_store ==
  MultiObjectStore_add_fs(MultiObjectStore_add_fs(<<>>, S3, Str(Scheme)), Local, None)

-----------------------------------------------------------------------------
(* Calls.  A client calls one method at a time and sees its result; a      *)
(* handle it opened is written and closed before its next call.            *)

Args(op, path, data, mode, query, recursive, segs) ==
  [op |-> op, path |-> path, data |-> data, mode |-> mode, query |-> query,
   recursive |-> recursive, segs |-> segs]

ArgsExists(path) == Args("exists", path, <<>>, "", NoQuery, FALSE, <<>>)
ArgsGet(path) == Args("get_object", path, <<>>, "", NoQuery, FALSE, <<>>)
ArgsPut(path, data) == Args("put_object", path, data, "", NoQuery, FALSE, <<>>)
ArgsLs(path, query) == Args("ls", path, <<>>, "", query, FALSE, <<>>)
ArgsRm(path, recursive) == Args("rm", path, <<>>, "", NoQuery, recursive, <<>>)
ArgsOpen(path, mode) == Args("open", path, <<>>, mode, NoQuery, FALSE, <<>>)
ArgsJoin(segs) == Args("path_join", Head(segs), <<>>, "", NoQuery, FALSE, segs)

Out(err, val, fs, ds, os) ==
  [err |-> err, val |-> val, files |-> fs, dirs |-> ds, objs |-> os]

\* a method of LocalObjectStore on the arguments of a call
LocalObjectStore_call(a, fs, ds, os) ==
  LET l(r) == Out(r.err, IF r.err = "" THEN r.val ELSE <<>>, r.files, r.dirs, os)
  IN CASE a.op = "exists" -> l(LocalObjectStore_exists(fs, ds, a.path))
       [] a.op = "get_object" -> l(LocalObjectStore_get_object(fs, ds, a.path))
       [] a.op = "put_object" -> l(LocalObjectStore_put_object(fs, ds, a.path, a.data))
       [] a.op = "ls" -> l(LocalObjectStore_ls(fs, ds, a.path, a.query))
       [] a.op = "open" -> l(LocalObjectStore_open(fs, ds, a.path, a.mode))
       [] a.op = "rm" -> l(LocalObjectStore_rm(fs, ds, a.path, a.recursive))
       [] a.op = "path_join" -> Out("", LocalObjectStore_path_join(a.segs), fs, ds, os)

\* a method of S3ObjectStore on the arguments of a call
S3ObjectStore_call(a, fs, ds, os) ==
  LET c(r) == Out(r.err, IF r.err = "" THEN r.val ELSE <<>>, fs, ds, r.objs)
  IN CASE a.op = "exists" -> c(S3ObjectStore_exists(os, a.path))
       [] a.op = "get_object" -> c(S3ObjectStore_get_object(os, a.path))
       [] a.op = "put_object" -> c(S3ObjectStore_put_object(os, a.path, a.data))
       [] a.op = "ls" -> c(S3ObjectStore_ls(os, a.path, a.query))
       [] a.op = "open" -> c(S3ObjectStore_open(os, a.path, a.mode))
       [] a.op = "rm" -> c(S3ObjectStore_rm(os, a.path, a.recursive))
       [] a.op = "path_join" -> Out("", S3ObjectStore_path_join(a.segs), fs, ds, os)

ObjectStore_call(store, a, fs, ds, os) ==
  IF store = S3 THEN S3ObjectStore_call(a, fs, ds, os)
  ELSE LocalObjectStore_call(a, fs, ds, os)

\* the arguments a MultiObjectStore method hands on: ls passes the path
\* alone, every other method all of its arguments
Delegated(a) == IF a.op = "ls" THEN ArgsLs(a.path, NoQuery) ELSE a

\* a method of MultiObjectStore: self._fs(path).method(...)
MultiObjectStore_call(d, a, fs, ds, os) ==
  LET sel == MultiObjectStore__fs(d, a.path)
  IN IF sel.err # "" THEN Out(sel.err, <<>>, fs, ds, os)
     ELSE ObjectStore_call(sel.fs, Delegated(a), fs, ds, os)

NoCall ==
  [via |-> "none", store |-> "none", op |-> "none", path |-> <<>>, data |-> <<>>,
   mode |-> "", query |-> NoQuery, recursive |-> FALSE, segs |-> <<>>,
   err |-> "", val |-> <<>>]

Made(via, store, a, r) ==
  [via |-> via, store |-> store, op |-> a.op, path |-> a.path, data |-> a.data,
   mode |-> a.mode, query |-> a.query, recursive |-> a.recursive, segs |-> a.segs,
   err |-> r.err, val |-> r.val]

NoHandle == [store |-> "none", at |-> <<>>, mode |-> "", buf |-> <<>>]

\* what a call leaves: the storage, the result, and an open handle
Returned(via, store, a, r) ==
  LET opened == a.op = "open" /\ r.err = ""
  IN /\ files' = r.files
     /\ dirs' = r.dirs
     /\ objs' = r.objs
     /\ call' = Made(via, store, a, r)
     /\ handle' = IF opened THEN [store |-> store, at |-> r.val, mode |-> a.mode, buf |-> <<>>]
                  ELSE NoHandle
     /\ pc' = IF opened THEN "open" ELSE "returned"
     /\ onlyPuts' = (onlyPuts /\ (a.op \in {"exists", "ls", "path_join"}
                                  \/ (a.op = "put_object" /\ r.err = "")))
     /\ UNCHANGED <<map_prefix_fs, regs>>

\* a call on a backend
StoreCall(store, a) ==
  Returned("store", store, a, ObjectStore_call(store, a, files, dirs, objs))

\* a call on the router
RouterCall(a) ==
  LET sel == MultiObjectStore__fs(map_prefix_fs, a.path)
  IN Returned("router", sel.fs, a, MultiObjectStore_call(map_prefix_fs, a, files, dirs, objs))

\* file.write(data) on an open handle: a text handle encodes what it is given
HandleWrite(data) ==
  /\ pc = "open"
  /\ ~IsReadMode(handle.mode)
  /\ handle.buf = <<>>
  /\ data \in (IF handle.mode = "w" THEN TextData ELSE BytesData)
  /\ handle' = [handle EXCEPT !.buf = IF handle.mode = "w" THEN Encode(data) ELSE data]
  /\ UNCHANGED <<files, dirs, objs, map_prefix_fs, regs, pc, call, onlyPuts>>

\* the handle's close: what was written reaches the file or the object
HandleClose ==
  /\ pc = "open"
  /\ files' = IF handle.store = Local /\ ~IsReadMode(handle.mode)
              THEN [files EXCEPT ![handle.at] = handle.buf] ELSE files
  /\ objs' = IF handle.store = S3 /\ ~IsReadMode(handle.mode)
             THEN [k \in DOMAIN objs \cup {handle.at} |->
                     IF k = handle.at THEN handle.buf ELSE objs[k]]
             ELSE objs
  /\ call' = [call EXCEPT !.op = "close", !.data = handle.buf]
  /\ handle' = NoHandle
  /\ pc' = "returned"
  /\ UNCHANGED <<dirs, map_prefix_fs, regs, onlyPuts>>

\* the client takes the result and is ready for its next call
Return ==
  /\ pc = "returned"
  /\ pc' = "idle"
  /\ call' = NoCall
  /\ UNCHANGED <<files, dirs, objs, map_prefix_fs, regs, handle, onlyPuts>>

-----------------------------------------------------------------------------
(* The paths, payloads and queries the clients call with *)

Names == {<<"a">>, <<"b", "b", "b">>}

Bbb == <<"b", "b", "b">>

\* the nodes the clients name: two at the top, two siblings inside one of them
Nodes == {<<n>> : n \in Names} \cup {<<Bbb, m>> : m \in Names}

RECURSIVE Render(_)
Render(comps) ==
  IF comps = <<>> THEN <<>>
  ELSE IF Len(comps) = 1 THEN Head(comps)
  ELSE Head(comps) \o <<SEP>> \o Render(Tail(comps))

\* every node as a relative and as an absolute path, with and without a
\* trailing separator; the empty path and the root
LocalPaths ==
  {<<>>, <<SEP>>}
    \cup {Render(c) : c \in Nodes} \cup {Render(c) \o <<SEP>> : c \in Nodes}
    \cup {<<SEP>> \o Render(c) : c \in Nodes}
    \cup {<<SEP>> \o Render(c) \o <<SEP>> : c \in Nodes}

Queries == {NoQuery, S3Query(<<>>, FALSE), S3Query(<<SEP>> \o Bbb, TRUE)}

Modes == {"r", "rb", "w", "wb"}

Bkt == <<"b", "k", "t">>
S3Plain ==
  {Bkt, Bkt \o <<SEP>>, Bkt \o <<SEP, "a">>, Bkt \o <<SEP, "b">>,
   Bkt \o <<SEP, "b", SEP, "a">>, Bkt \o <<SEP, "b", SEP, "b">>}
S3Paths == S3Plain \cup {Scheme \o p : p \in S3Plain}

MultiPaths ==
  {<<"a">>, <<SEP>> \o Bbb \o <<SEP>>, <<SEP>> \o Bbb \o <<SEP, "a">>,
   Scheme \o Bkt, Scheme \o Bkt \o <<SEP, "a">>, Scheme \o Bkt \o <<SEP, "b">>}

Segments == {<<>>, <<"a">>, <<SEP>>, <<"a", SEP>>, <<SEP, "b">>}
MaxSegs == 3
SegSeqs == UNION {[1..n -> Segments] : n \in 1..MaxSegs}

-----------------------------------------------------------------------------
(* The client of a LocalObjectStore *)

Init ==
  /\ files = <<>>
  /\ dirs = {Root}
  /\ objs = <<>>
  /\ map_prefix_fs = create_multi_object_store
  /\ regs = <<>>
  /\ pc = "idle"
  /\ call = NoCall
  /\ handle = NoHandle
  /\ onlyPuts = TRUE

Exists(path) ==
  /\ pc = "idle"
  /\ StoreCall(Local, ArgsExists(path))
GetObject(path) ==
  /\ pc = "idle"
  /\ StoreCall(Local, ArgsGet(path))
PutObject(path, data) ==
  /\ pc = "idle"
  /\ StoreCall(Local, ArgsPut(path, data))
Ls(path, query) ==
  /\ pc = "idle"
  /\ StoreCall(Local, ArgsLs(path, query))
Rm(path, recursive) ==
  /\ pc = "idle"
  /\ StoreCall(Local, ArgsRm(path, recursive))
Open(path, mode) ==
  /\ pc = "idle"
  /\ StoreCall(Local, ArgsOpen(path, mode))

Next ==
  \/ \E p \in LocalPaths, d \in BytesData : PutObject(p, d)
  \/ \E p \in LocalPaths : GetObject(p)
  \/ \E p \in LocalPaths : Exists(p)
  \/ \E p \in LocalPaths, q \in Queries : Ls(p, q)
  \/ \E p \in LocalPaths, r \in BOOLEAN : Rm(p, r)
  \/ \E p \in LocalPaths, m \in Modes : Open(p, m)
  \/ \E d \in BytesData \cup TextData : HandleWrite(d)
  \/ HandleClose
  \/ Return

Spec == Init /\ [][Next]_vars

-----------------------------------------------------------------------------
(* The client of an S3ObjectStore *)

S3Exists(path) ==
  /\ pc = "idle"
  /\ StoreCall(S3, ArgsExists(path))
S3GetObject(path) ==
  /\ pc = "idle"
  /\ StoreCall(S3, ArgsGet(path))
S3PutObject(path, data) ==
  /\ pc = "idle"
  /\ StoreCall(S3, ArgsPut(path, data))
S3Ls(path, query) ==
  /\ pc = "idle"
  /\ StoreCall(S3, ArgsLs(path, query))
S3Rm(path, recursive) ==
  /\ pc = "idle"
  /\ StoreCall(S3, ArgsRm(path, recursive))
S3Open(path, mode) ==
  /\ pc = "idle"
  /\ StoreCall(S3, ArgsOpen(path, mode))

NextS3 ==
  \/ \E p \in S3Paths, d \in BytesData : S3PutObject(p, d)
  \/ \E p \in S3Paths : S3GetObject(p)
  \/ \E p \in S3Paths : S3Exists(p)
  \/ \E p \in S3Paths, q \in Queries : S3Ls(p, q)
  \/ \E p \in S3Paths, r \in BOOLEAN : S3Rm(p, r)
  \/ \E p \in S3Paths, m \in Modes : S3Open(p, m)
  \/ \E d \in BytesData \cup TextData : HandleWrite(d)
  \/ HandleClose
  \/ Return

SpecS3 == Init /\ [][NextS3]_vars

-----------------------------------------------------------------------------
(* The client of fs, the MultiObjectStore of create_multi_object_store() *)

MultiExists(path) ==
  /\ pc = "idle"
  /\ RouterCall(ArgsExists(path))
MultiGetObject(path) ==
  /\ pc = "idle"
  /\ RouterCall(ArgsGet(path))
MultiPutObject(path, data) ==
  /\ pc = "idle"
  /\ RouterCall(ArgsPut(path, data))
MultiLs(path, query) ==
  /\ pc = "idle"
  /\ RouterCall(ArgsLs(path, query))
MultiRm(path, recursive) ==
  /\ pc = "idle"
  /\ RouterCall(ArgsRm(path, recursive))
MultiOpen(path, mode) ==
  /\ pc = "idle"
  /\ RouterCall(ArgsOpen(path, mode))
MultiPathJoin(segs) ==
  /\ pc = "idle"
  /\ RouterCall(ArgsJoin(segs))

JoinPairs == {<<p, t>> : p \in {<<SEP>> \o Bbb, Scheme \o Bkt}, t \in {<<>>, <<"a">>, <<SEP, "a">>}}

NextMulti ==
  \/ \E p \in MultiPaths, d \in BytesData : MultiPutObject(p, d)
  \/ \E p \in MultiPaths : MultiGetObject(p)
  \/ \E p \in MultiPaths : MultiExists(p)
  \/ \E p \in MultiPaths, q \in Queries : MultiLs(p, q)
  \/ \E p \in MultiPaths, r \in BOOLEAN : MultiRm(p, r)
  \/ \E p \in MultiPaths, m \in Modes : MultiOpen(p, m)
  \/ \E segs \in JoinPairs : MultiPathJoin(segs)
  \/ \E d \in BytesData \cup TextData : HandleWrite(d)
  \/ HandleClose
  \/ Return

SpecMulti == Init /\ [][NextMulti]_vars

-----------------------------------------------------------------------------
(* path_join on both backends *)

PathJoin(store, segs) ==
  /\ pc = "idle"
  /\ StoreCall(store, ArgsJoin(segs))

NextJoin ==
  \/ \E store \in {S3, Local}, segs \in SegSeqs : PathJoin(store, segs)
  \/ Return

SpecJoin == Init /\ [][NextJoin]_vars

-----------------------------------------------------------------------------
(* The configuration of a MultiObjectStore: add_fs calls, then dispatch.   *)
(* regs is the sequence of the add_fs calls made so far.                   *)

MaxRegs == 3

Backends == {S3, Local, InMemory}
RouterPrefixes == {None, Str(Scheme), Str(<<"s">>), Str(<<SEP>>)}
RouterPaths == {Scheme \o Bkt, <<SEP, "a">>, <<"a">>, <<"s">>}

\* MultiObjectStore()
InitRouter ==
  /\ files = <<>>
  /\ dirs = {Root}
  /\ objs = <<>>
  /\ map_prefix_fs = <<>>
  /\ regs = <<>>
  /\ pc = "idle"
  /\ call = NoCall
  /\ handle = NoHandle
  /\ onlyPuts = TRUE

AddFs(fs, prefix) ==
  /\ pc = "idle"
  /\ Len(regs) < MaxRegs
  /\ map_prefix_fs' = MultiObjectStore_add_fs(map_prefix_fs, fs, prefix)
  /\ regs' = Append(regs, [prefix |-> prefix, fs |-> fs])
  /\ UNCHANGED <<files, dirs, objs, pc, call, handle, onlyPuts>>

Dispatch(path) ==
  /\ pc = "idle"
  /\ LET sel == MultiObjectStore__fs(map_prefix_fs, path)
     IN call' = Made("router", sel.fs, Args("_fs", path, <<>>, "", NoQuery, FALSE, <<>>),
                     Out(sel.err, sel.fs, files, dirs, objs))
  /\ pc' = "returned"
  /\ UNCHANGED <<files, dirs, objs, map_prefix_fs, regs, handle, onlyPuts>>

NextRouter ==
  \/ \E fs \in Backends, prefix \in RouterPrefixes : AddFs(fs, prefix)
  \/ \E p \in RouterPaths : Dispatch(p)
  \/ Return

SpecRouter == InitRouter /\ [][NextRouter]_vars

-----------------------------------------------------------------------------
(* Claims *)

ArgsOf(c) == Args(c.op, c.path, c.data, c.mode, c.query, c.recursive, c.segs)
Range(f) == {f[i] : i \in DOMAIN f}
Least(S) == CHOOSE i \in S : \A j \in S : i <= j
Greatest(S) == CHOOSE i \in S : \A j \in S : j <= i

\* the add_fs calls whose prefix is a string the path starts with, and those
\* that registered a default
MatchingRegs(path) ==
  {i \in 1..Len(regs) : ~regs[i].prefix.none /\ StartsWith(path, regs[i].prefix.str)}
DefaultRegs == {i \in 1..Len(regs) : regs[i].prefix.none}
SamePrefixRegs(i) == {j \in 1..Len(regs) : regs[j].prefix = regs[i].prefix}

\* C1, as stated: _fs returns the backend of the first add_fs call, in the
\* order of the calls, whose non-default prefix the path starts with; with no
\* such call a registered default; with no default either it raises at
\* dispatch.
C1_FirstRegistered ==
  (pc = "returned" /\ call.op = "_fs") =>
    IF MatchingRegs(call.path) # {}
    THEN call.err = "" /\ call.val = regs[Least(MatchingRegs(call.path))].fs
    ELSE IF DefaultRegs # {}
    THEN call.err = "" /\ call.val \in {regs[i].fs : i \in DefaultRegs}
    ELSE call.err = "KeyError"

\* C1, amended: _fs returns the backend most recently registered under the
\* earliest-registered non-default prefix the path starts with (registering
\* a prefix again replaces its backend and keeps its place); with no match
\* the most recently registered default; with no default it raises KeyError
\* at dispatch.
C1_FirstPrefixLatestBackend ==
  (pc = "returned" /\ call.op = "_fs") =>
    IF MatchingRegs(call.path) # {}
    THEN /\ call.err = ""
         /\ call.val = regs[Greatest(SamePrefixRegs(Least(MatchingRegs(call.path))))].fs
    ELSE IF DefaultRegs # {}
    THEN call.err = "" /\ call.val = regs[Greatest(DefaultRegs)].fs
    ELSE call.err = "KeyError"

\* a dispatch that two registered prefixes match, the first of them
\* registered twice with different backends
C1_Witness ==
  /\ pc = "returned" /\ call.op = "_fs" /\ call.err = ""
  /\ \E i, j \in MatchingRegs(call.path) : regs[i].prefix # regs[j].prefix
  /\ call.val # regs[Least(MatchingRegs(call.path))].fs

\* C2: every MultiObjectStore method returns what the same method with the
\* same arguments returns on the backend _fs selects, and leaves the storage
\* that call leaves.
C2_DispatchThenDelegate ==
  [][(pc = "idle" /\ call'.via = "router") =>
       LET sel == MultiObjectStore__fs(map_prefix_fs, call'.path)
           d == ObjectStore_call(sel.fs, ArgsOf(call'), files, dirs, objs)
       IN sel.err = "" =>
            /\ call'.err = d.err
            /\ call'.val = d.val
            /\ files' = d.files /\ dirs' = d.dirs /\ objs' = d.objs]_vars

\* a path that names a file that can be written: not empty, no trailing
\* separator, no file among its parents, not a directory
ValidTarget(fs, ds, path) ==
  /\ path # <<>> /\ ~EndsWith(path, <<SEP>>)
  /\ \A a \in ProperPrefixes(Parts(path)) : ~IsFile(fs, a)
  /\ ~IsDir(ds, Parts(path))

Fetched(fs, ds, path, data) ==
  LET g == LocalObjectStore_get_object(fs, ds, path)
  IN g.err = "" /\ g.val = data

\* C3: on the local backend put_object(p, b) on any valid path succeeds and
\* get_object(p) then returns b, the latest payload; and so does writing b
\* through open(p, write mode) and closing the handle.
C3_RoundTrip ==
  [][/\ (pc = "idle" /\ call'.op = "put_object" /\ ValidTarget(files, dirs, call'.path)) =>
          (call'.err = "" /\ Fetched(files', dirs', call'.path, call'.data))
     /\ (pc = "idle" /\ call'.op = "open" /\ ~IsReadMode(call'.mode)
           /\ ValidTarget(files, dirs, call'.path)) => call'.err = ""
     /\ (pc = "open" /\ call'.op = "close" /\ ~IsReadMode(call'.mode)) =>
          Fetched(files', dirs', call'.path, call'.data)]_vars

AllNodes(fs, ds) == DOMAIN fs \cup ds

\* the call removes p: rm(p)
RemovesItself(c, p) == c.op = "rm" /\ Parts(c.path) = Parts(p)

\* the call removes p or, recursively, a directory above it
Removes(c, p) ==
  /\ c.op = "rm"
  /\ \/ Parts(c.path) = Parts(p)
     \/ c.recursive /\ Parts(c.path) \in ProperPrefixes(Parts(p))

C5_ShortPathGuard ==
  [][(pc = "idle" /\ call'.op = "rm" /\ call'.recursive /\ Len(call'.path) < MinSafeLen) =>
       /\ call'.err # ""
       /\ UNCHANGED <<files, dirs, objs>>]_vars

\* the children of a node
Children(fs, ds, node) ==
  {m \in AllNodes(fs, ds) : Len(m) = Len(node) + 1 /\ Below(node, m)}

\* a directory given with its trailing separator, or without it
Toggled(dir) ==
  IF EndsWith(dir, <<SEP>>) THEN (IF RStrip(dir) = <<>> THEN dir ELSE RStrip(dir))
  ELSE dir \o <<SEP>>

\* C6: on the local backend ls(dir) without a query returns exactly the
\* children of dir, each as dir, one separator and the child's name, without
\* a trailing separator, without duplicates, in ascending order, the same
\* with and without a trailing separator on dir; after nothing but puts (that
\* returned), every directory listed holds an object.
C6_ListingShape ==
  (pc = "returned" /\ call.store = Local /\ call.op = "ls" /\ ~call.query.given
     /\ call.err = "") =>
    LET node == Parts(call.path)
        kids == Children(files, dirs, node)
        expected == {RStrip(call.path) \o <<SEP>> \o k[Len(k)] : k \in kids}
    IN /\ Range(call.val) = expected
       /\ Len(call.val) = Cardinality(expected)
       /\ \A i, j \in 1..Len(call.val) : i < j => StrLess(call.val[i], call.val[j])
       /\ \A i \in 1..Len(call.val) : ~EndsWith(call.val[i], <<SEP>>)
       /\ LET t == LocalObjectStore_ls(files, dirs, Toggled(call.path), NoQuery)
          IN t.err = "" /\ t.val = call.val
       /\ onlyPuts => \A k \in kids : IsDir(dirs, k) => \E f \in DOMAIN files : Below(k, f)

\* after puts only, a listing of a file and of a directory that holds one
C6_Witness ==
  /\ pc = "returned" /\ call.op = "ls" /\ ~call.query.given /\ call.err = ""
  /\ onlyPuts
  /\ \E i, j \in 1..Len(call.val) :
       IsFile(files, Parts(call.val[i])) /\ IsDir(dirs, Parts(call.val[j]))

HasDouble(s) == \E i \in 1..(Len(s) - 1) : s[i] = SEP /\ s[i + 1] = SEP
IsSubstr(x, s) == \E i \in 0..(Len(s) - Len(x)) : SubSeq(s, i + 1, i + Len(x)) = x

\* two segments with exactly one separator between them
Glue(a, b) ==
  IF EndsWith(a, <<SEP>>) /\ StartsWith(b, <<SEP>>) THEN a \o Tail(b)
  ELSE IF EndsWith(a, <<SEP>>) \/ StartsWith(b, <<SEP>>) THEN a \o b
  ELSE a \o <<SEP>> \o b

JoinOf(store, segs) ==
  IF store = S3 THEN S3ObjectStore_path_join(segs) ELSE LocalObjectStore_path_join(segs)

\* C7: on both backends path_join doubles no separator (segments that hold
\* no doubled separator give a result without one), puts exactly one
\* separator between two consecutive non-empty segments, and returns what it
\* returns for the segments without the empty ones.
C7_PathJoin ==
  (pc = "returned" /\ call.op = "path_join") =>
    LET r == call.val
        ne == NonEmpty(call.segs)
    IN /\ (\A i \in 1..Len(call.segs) : ~HasDouble(call.segs[i])) => ~HasDouble(r)
       /\ \A i \in 1..(Len(ne) - 1) : IsSubstr(Glue(ne[i], ne[i + 1]), r)
       /\ ne # <<>> => r = JoinOf(call.store, ne)

\* two paths that name different entries of the same directory
Siblings(p, q) ==
  LET n == Parts(p)
      m == Parts(q)
  IN /\ n # <<>> /\ Len(m) = Len(n) /\ m # n
     /\ SubSeq(m, 1, Len(m) - 1) = SubSeq(n, 1, Len(n) - 1)

\* C8: rm(p) on the local backend leaves exists(q) and what get_object(q)
\* returns as they were for every sibling q of p, and when it returns,
\* exists(p) is false.
C8_RemovalIsolation ==
  [][(pc = "idle" /\ call'.store = Local /\ call'.op = "rm") =>
       /\ \A q \in LocalPaths :
            Siblings(call'.path, q) =>
              LET before == LocalObjectStore_get_object(files, dirs, q)
                  after == LocalObjectStore_get_object(files', dirs', q)
              IN /\ OsPathExists(files', dirs', q) = OsPathExists(files, dirs, q)
                 /\ after.err = before.err
                 /\ after.err = "" => after.val = before.val
       /\ call'.err = "" => ~OsPathExists(files', dirs', call'.path)]_vars

\* an rm has returned and a sibling file of the removed path is there
C8_Witness ==
  /\ pc = "returned" /\ call.op = "rm" /\ call.err = ""
  /\ \E q \in LocalPaths : Siblings(call.path, q) /\ Lookup(files, dirs, q) = "file"

\* C9: on the local backend ls(path, query) with query.recursive returns the
\* files anywhere below path whose path starts with query.prefix, sorted.
C9_RecursiveQuery ==
  (pc = "returned" /\ call.store = Local /\ call.op = "ls" /\ call.query.given
     /\ call.query.recursive) =>
    /\ call.err = ""
    /\ call.val = LocalObjectStore__ls_query(files, dirs, call.path, call.query.prefix,
                                             TRUE).val

\* C10: get_object(path) and open(path, "r" or "rb") on the local backend
\* leave the files and directories as they were, and fail with
\* FileNotFoundError when the path does not exist.
C10_ReadsChangeNothing ==
  [][(pc = "idle" /\ call'.store = Local
        /\ (call'.op = "get_object" \/ (call'.op = "open" /\ IsReadMode(call'.mode)))) =>
       /\ files' = files /\ dirs' = dirs
       /\ Lookup(files, dirs, call'.path) \in {"absent", "enoent"} =>
            call'.err = "FileNotFoundError"]_vars

=============================================================================
